---- MODULE Spec2Model ----
(***************************************************************************)
(* env-sync: a local KEY=VALUE file kept in step with one encrypted remote *)
(* blob.  The module models the key-value codec and the conflict           *)
(* detector/resolver of internal/sync (conflict resolver file) and the     *)
(* sync orchestrator of internal/sync/manager.go.                          *)
(*                                                                         *)
(* Spec runs the orchestrator; SpecDetect, SpecCodec and SpecResolve apply *)
(* DetectConflict, the codec and ResolveConflict to every bounded input.   *)
(* SpecCipher seals and opens every small text under every key.            *)
(* SpecWatch runs the event loop of internal/watcher/file_watcher.go       *)
(* against the file system, the ticker, the terminal and its callers;      *)
(* SpecWatchFair adds the scheduling the Go runtime gives that loop.       *)
(*                                                                         *)
(* Texts are sequences of one-character strings, so that parsing and       *)
(* serialising are computed character by character as the Go code does.    *)
(***************************************************************************)
EXTENDS Integers, Sequences, FiniteSets, TLC

VARIABLES
    localFile,   \* content of cfg.EnvFile, or NoFile
    remoteBlob,  \* the secret held by the vault under cfg.SecretName, or NoSecret
    stateFile,   \* content of .env-sync-state.json: NoFile, Damaged, or a SyncState
    backupDir,   \* which backup files exist for the most recent ConflictTime
    resolver,    \* the SyncManager's ConflictResolver: [Strategy, InteractiveMode]
    last,        \* what the most recent step did (observation only)
    dIn,         \* function harness: the arguments of the function applied
    dOut,        \* function harness: the returned value, or Pending
    fw,          \* the FileWatcher's fields fixed by NewFileWatcher
    pc,          \* where FileWatcher.Start is: "new", "select", "prompt", "push", "pull", "returned"
    ret,         \* what Start returned: "none" while it runs, then "nil" or "error"
    running,     \* the callbacks executing now: a subset of {"push", "pull"}
    sincePull,   \* time.Since(w.lastPullTime) in seconds, capped at GuardInterval
    sinceChange, \* time.Since(lastChange) in seconds, capped one above the debounce interval
    sinceAccept, \* seconds since line 136 last let a change through, capped likewise (history)
    watches,     \* the live registrations of w.watcher: a subset of {"file", "parent"}
    events,      \* the event fsnotify offers on w.watcher.Events, or NoEvent
    ctxDone,     \* ctx has been cancelled
    stopCall,    \* the goroutine that called Stop: "none", "blocked", "panicked"
    terminal,    \* the line waiting on os.Stdin, NoInput or ReadError
    reported     \* the errors the loop's most recent step printed

vars == <<localFile, remoteBlob, stateFile, backupDir, resolver, last, dIn, dOut,
          fw, pc, ret, running, sincePull, sinceChange, sinceAccept, watches,
          events, ctxDone, stopCall, terminal, reported>>

syncVars == <<localFile, remoteBlob, stateFile, backupDir, resolver, last>>
detectVars == <<dIn, dOut>>
watchVars == <<fw, pc, ret, running, sincePull, sinceChange, sinceAccept, watches,
               events, ctxDone, stopCall, terminal, reported>>

-----------------------------------------------------------------------------
(* Bounds *)

\* longest text handed to DetectConflict by the harness
MaxTextLen == 3
\* conflict resolutions counted before the model stops resolving
MaxConflicts == 2
\* longest value of a mapping handed to the codec by the harness
MaxValueLen == 2
\* most lines typed at the terminal during one resolution in the harness
MaxLines == 3
\* longest debounce interval, in seconds, a FileWatcher is constructed with
MaxDebounce == 1

-----------------------------------------------------------------------------
(* Strings *)

NL == "\n"
DQ == "\""
SQ == "'"

\* unicode.IsSpace restricted to the characters the model uses
Whitespace == {" ", "\t", NL, "\r"}

\* byte values, for sort.Strings
CharCode(c) ==
    CASE c = "\t" -> 9
      [] c = NL -> 10
      [] c = "\r" -> 13
      [] c = " " -> 32
      [] c = DQ -> 34
      [] c = "#" -> 35
      [] c = SQ -> 39
      [] c = "1" -> 49
      [] c = "2" -> 50
      [] c = "3" -> 51
      [] c = "7" -> 55
      [] c = "8" -> 56
      [] c = "9" -> 57
      [] c = "<" -> 60
      [] c = "=" -> 61
      [] c = ">" -> 62
      [] c = "A" -> 65
      [] c = "B" -> 66
      [] c = "C" -> 67
      [] c = "E" -> 69
      [] c = "F" -> 70
      [] c = "L" -> 76
      [] c = "M" -> 77
      [] c = "O" -> 79
      [] c = "R" -> 82
      [] c = "T" -> 84
      [] OTHER -> 127

RECURSIVE TrimLeft(_)
TrimLeft(s) ==
    IF s # <<>> /\ Head(s) \in Whitespace THEN TrimLeft(Tail(s)) ELSE s

RECURSIVE TrimRight(_)
TrimRight(s) ==
    IF s # <<>> /\ s[Len(s)] \in Whitespace
    THEN TrimRight(SubSeq(s, 1, Len(s) - 1))
    ELSE s

\* strings.TrimSpace
TrimSpace(s) == TrimRight(TrimLeft(s))

\* strings.Index for a one-character separator, 1-based; 0 when absent
IndexOf(s, c) ==
    IF \E i \in 1..Len(s) : s[i] = c
    THEN CHOOSE i \in 1..Len(s) : s[i] = c /\ \A j \in 1..(i - 1) : s[j] # c
    ELSE 0

\* strings.Split(s, c)
RECURSIVE Split(_, _)
Split(s, c) ==
    LET i == IndexOf(s, c)
    IN  IF i = 0
        THEN <<s>>
        ELSE <<SubSeq(s, 1, i - 1)>> \o Split(SubSeq(s, i + 1, Len(s)), c)

\* a < b in byte-wise lexicographic order
RECURSIVE StrLess(_, _)
StrLess(a, b) ==
    IF a = <<>> THEN b # <<>>
    ELSE IF b = <<>> THEN FALSE
    ELSE IF Head(a) = Head(b) THEN StrLess(Tail(a), Tail(b))
    ELSE CharCode(Head(a)) < CharCode(Head(b))

\* sort.Strings over a set of distinct strings
RECURSIVE SortStrings(_)
SortStrings(S) ==
    IF S = {} THEN <<>>
    ELSE LET m == CHOOSE x \in S : \A y \in S \ {x} : StrLess(x, y)
         IN  <<m>> \o SortStrings(S \ {m})

\* strings.Join(lines, "\n")
RECURSIVE JoinLines(_)
JoinLines(lines) ==
    IF lines = <<>> THEN <<>>
    ELSE IF Len(lines) = 1 THEN lines[1]
    ELSE lines[1] \o <<NL>> \o JoinLines(Tail(lines))

\* contains(slice, item)
contains(slice, item) == \E i \in 1..Len(slice) : slice[i] = item

\* strings.ToLower over the letters a terminal answer is typed with
LowerChar(c) ==
    CASE c = "L" -> "l"
      [] c = "R" -> "r"
      [] c = "E" -> "e"
      [] c = "Y" -> "y"
      [] c = "S" -> "s"
      [] OTHER -> c

ToLower(s) == [i \in 1..Len(s) |-> LowerChar(s[i])]

\* strings.Contains(s, sub)
IsInfix(sub, s) ==
    \E i \in 0..(Len(s) - Len(sub)) : SubSeq(s, i + 1, i + Len(sub)) = sub

-----------------------------------------------------------------------------
(* Key-value codec *)

\* map[string]string: a function from keys to values
EmptyEnv == [k \in {} |-> <<>>]

MapPut(env, key, value) ==
    [k \in (DOMAIN env) \cup {key} |-> IF k = key THEN value ELSE env[k]]

\* one iteration of parseEnvContent's loop
ParseLine(raw) ==
    LET line == TrimSpace(raw)
    IN  IF line = <<>> \/ Head(line) = "#"
        THEN [kind |-> "skip", key |-> <<>>, value |-> <<>>]
        ELSE LET i == IndexOf(line, "=")
             IN  IF i = 0
                 THEN [kind |-> "error", key |-> <<>>, value |-> <<>>]
                 ELSE LET key == TrimSpace(SubSeq(line, 1, i - 1))
                          v == TrimSpace(SubSeq(line, i + 1, Len(line)))
                          quoted ==
                              /\ Len(v) >= 2
                              /\ \/ v[1] = DQ /\ v[Len(v)] = DQ
                                 \/ v[1] = SQ /\ v[Len(v)] = SQ
                      IN  [kind |-> "pair",
                           key |-> key,
                           value |-> IF quoted THEN SubSeq(v, 2, Len(v) - 1) ELSE v]

RECURSIVE ParseLines(_, _, _)
ParseLines(lines, i, env) ==
    IF i > Len(lines)
    THEN [ok |-> TRUE, env |-> env, line |-> 0]
    ELSE LET p == ParseLine(lines[i])
         IN  IF p.kind = "skip" THEN ParseLines(lines, i + 1, env)
             ELSE IF p.kind = "error" THEN [ok |-> FALSE, env |-> EmptyEnv, line |-> i]
             ELSE ParseLines(lines, i + 1, MapPut(env, p.key, p.value))

\* a parser that drops the lines it cannot split instead of failing
parseEnvContent_lenient(content) ==
    ParseLines(SelectSeq(Split(content, NL), LAMBDA raw : ParseLine(raw).kind # "error"),
               1, EmptyEnv)

\* parseEnvContent: [ok, env] or the 1-based number of the offending line
parseEnvContent(content) == ParseLines(Split(content, NL), 1, EmptyEnv)

NeedsQuote(value) ==
    \E i \in 1..Len(value) : value[i] \in {" ", "\t", NL, "\r", "="}

EnvLine(key, value) ==
    key \o <<"=">> \o (IF NeedsQuote(value) THEN <<DQ>> \o value \o <<DQ>> ELSE value)

generateEnvContent(env) ==
    LET keys == SortStrings(DOMAIN env)
    IN  JoinLines([i \in 1..Len(keys) |-> EnvLine(keys[i], env[keys[i]])]) \o <<NL>>

-----------------------------------------------------------------------------
(* Conflict detector *)

\* sha256 is collision resistant: distinct contents have distinct hashes, and
\* no content hashes to the empty string of a zero SyncState.
calculateHash(content) == <<"sha256", content>>
EmptyHash == <<>>

\* findConflictingKeys counting a key that only one side has
findConflictingKeys_oneSided(localEnv, remoteEnv) ==
    SortStrings({k \in (DOMAIN localEnv) \cup (DOMAIN remoteEnv) :
                    \/ k \notin DOMAIN localEnv
                    \/ k \notin DOMAIN remoteEnv
                    \/ localEnv[k] # remoteEnv[k]})

findConflictingKeys(localEnv, remoteEnv) ==
    SortStrings({k \in (DOMAIN localEnv) \cap (DOMAIN remoteEnv) :
                    localEnv[k] # remoteEnv[k]})

NoConflict == [kind |-> "none"]
DetectError(side, line) == [kind |-> "error", side |-> side, line |-> line]

\* DetectConflict with the identical-content check made after parsing
DetectConflict_parseFirst(localContent, remoteContent, lastKnownHash) ==
    LET localHash == calculateHash(localContent)
        remoteHash == calculateHash(remoteContent)
        l == parseEnvContent(localContent)
        r == parseEnvContent(remoteContent)
    IN  IF ~l.ok THEN DetectError("local", l.line)
        ELSE IF ~r.ok THEN DetectError("remote", r.line)
        ELSE IF localHash = remoteHash THEN NoConflict
        ELSE IF localHash = lastKnownHash THEN NoConflict
        ELSE IF remoteHash = lastKnownHash THEN NoConflict
        ELSE [kind |-> "conflict",
              LocalHash |-> localHash, RemoteHash |-> remoteHash,
              LocalChanges |-> l.env, RemoteChanges |-> r.env,
              Conflicts |-> findConflictingKeys(l.env, r.env)]

\* DetectConflict without the "only local changed" check
DetectConflict_noRemoteCheck(localContent, remoteContent, lastKnownHash) ==
    LET localHash == calculateHash(localContent)
        remoteHash == calculateHash(remoteContent)
        l == parseEnvContent(localContent)
        r == parseEnvContent(remoteContent)
    IN  IF localHash = remoteHash THEN NoConflict
        ELSE IF localHash = lastKnownHash THEN NoConflict
        ELSE IF ~l.ok THEN DetectError("local", l.line)
        ELSE IF ~r.ok THEN DetectError("remote", r.line)
        ELSE [kind |-> "conflict",
              LocalHash |-> localHash, RemoteHash |-> remoteHash,
              LocalChanges |-> l.env, RemoteChanges |-> r.env,
              Conflicts |-> findConflictingKeys(l.env, r.env)]

\* ConflictResolver.DetectConflict; ConflictTime is stamped by the caller's clock
DetectConflict(localContent, remoteContent, lastKnownHash) ==
    LET localHash == calculateHash(localContent)
        remoteHash == calculateHash(remoteContent)
        l == parseEnvContent(localContent)
        r == parseEnvContent(remoteContent)
    IN  IF localHash = remoteHash THEN NoConflict
        ELSE IF localHash = lastKnownHash THEN NoConflict
        ELSE IF remoteHash = lastKnownHash THEN NoConflict
        ELSE IF ~l.ok THEN DetectError("local", l.line)
        ELSE IF ~r.ok THEN DetectError("remote", r.line)
        ELSE [kind |-> "conflict",
              LocalHash |-> localHash, RemoteHash |-> remoteHash,
              LocalChanges |-> l.env, RemoteChanges |-> r.env,
              Conflicts |-> findConflictingKeys(l.env, r.env)]

-----------------------------------------------------------------------------
(* Cipher and vault collaborators *)

KeySize == 32

\* the key the SyncManager's caller passes to Push and Pull
TeamKey == [id |-> "team", len |-> 32]
\* a valid key that is not the team's
OtherKey == [id |-> "other", len |-> 32]

\* every key size AES takes is let through
ValidateEncryptionKey_anyAesSize(key) == key.len \in {16, 24, 32}

ValidateEncryptionKey(key) == key.len = KeySize

NoData == [key |-> "", pt |-> <<>>]

\* EncryptEnvContent: AES-256-GCM under key; the random nonce is left out
EncryptEnvContent(content, key) ==
    IF ~ValidateEncryptionKey(key)
    THEN [ok |-> FALSE, data |-> NoData]
    ELSE [ok |-> TRUE, data |-> [key |-> key.id, pt |-> content]]

\* the data is opened without its authentication tag being checked
DecryptEnvContent_noAuth(data, key) ==
    IF ~ValidateEncryptionKey(key) THEN [ok |-> FALSE, content |-> <<>>]
    ELSE [ok |-> TRUE, content |-> data.pt]

\* DecryptEnvContent: gcm.Open fails unless the data was sealed under key
DecryptEnvContent(data, key) ==
    IF ~ValidateEncryptionKey(key) THEN [ok |-> FALSE, content |-> <<>>]
    ELSE IF data.key # key.id THEN [ok |-> FALSE, content |-> <<>>]
    ELSE [ok |-> TRUE, content |-> data.pt]

NoSecret == [exists |-> FALSE, data |-> NoData]
Secret(data) == [exists |-> TRUE, data |-> data]

\* Client.GetSecret: any failure (secret missing, or the vault unreachable)
\* comes back as one undifferentiated error
GetSecret(blob, vaultUp) ==
    IF vaultUp /\ blob.exists
    THEN [ok |-> TRUE, value |-> blob.data]
    ELSE [ok |-> FALSE, value |-> NoData]

\* Client.StoreSecret
StoreSecret(blob, value, vaultUp) ==
    IF vaultUp
    THEN [ok |-> TRUE, blob |-> Secret(value)]
    ELSE [ok |-> FALSE, blob |-> blob]

-----------------------------------------------------------------------------
(* Files *)

NoFile == [exists |-> FALSE, content |-> <<>>]
File(content) == [exists |-> TRUE, content |-> content]

\* time.Time: the zero time of an empty SyncState, or a reading of the clock.
\* LastSyncTime is written and never read back, so one reading stands for all.
ZeroTime == "0001-01-01T00:00:00Z"
ClockTime == "time.Now()"

\* the zero SyncState
EmptyState ==
    [LastSyncTime |-> ZeroTime, LastKnownHash |-> EmptyHash, LastSyncBy |-> "", ConflictCount |-> 0]

NoStateFile == [status |-> "absent", state |-> EmptyState]
\* a record json.Unmarshal no longer accepts; of what it held only the
\* conflict count is followed
DamagedStateFile(state) ==
    [status |-> "damaged",
     state |-> [EmptyState EXCEPT !.ConflictCount = state.ConflictCount]]
StateFile(state) == [status |-> "ok", state |-> state]

\* SyncManager.loadState: a missing file is an empty state, an unreadable one an error
loadState(sf) ==
    IF sf.status = "absent" THEN [ok |-> TRUE, state |-> EmptyState]
    ELSE IF sf.status = "damaged" THEN [ok |-> FALSE, state |-> EmptyState]
    ELSE [ok |-> TRUE, state |-> sf.state]

\* the state Push and Pull go on with: a zero SyncState when loadState failed
LoadedState(sf) == IF loadState(sf).ok THEN loadState(sf).state ELSE EmptyState

\* SyncManager.saveState
saveState(sf, state, writeOk) == IF writeOk THEN StateFile(state) ELSE sf

\* os.WriteFile on the local file
WriteLocal(lf, content, writeOk) == IF writeOk THEN File(content) ELSE lf

-----------------------------------------------------------------------------
(* Conflict resolver *)

Strategies == {"manual", "local", "remote", "merge", "backup"}

SeqToSet(s) == {s[i] : i \in 1..Len(s)}

\* os.Stdin of an interactive terminal: the lines the user types, one per
\* ReadString('\n'), without their terminators; reading past the last is io.EOF
NoInput == <<>>

\* the words promptUserChoice accepts
Word_local == <<"l", "o", "c", "a", "l">>
Word_remote == <<"r", "e", "m", "o", "t", "e">>
Word_edit == <<"e", "d", "i", "t">>

PromptError == [ok |-> FALSE, value |-> <<>>, rest |-> NoInput]

\* promptUserChoice taking an unrecognised line for "local"
promptUserChoice_invalidIsLocal(stdin) ==
    IF stdin = NoInput THEN PromptError
    ELSE LET input == TrimSpace(ToLower(Head(stdin)))
         IN  IF input \in {<<"r">>, Word_remote}
             THEN [ok |-> TRUE, value |-> Word_remote, rest |-> Tail(stdin)]
             ELSE IF input \in {<<"e">>, Word_edit}
             THEN [ok |-> TRUE, value |-> Word_edit, rest |-> Tail(stdin)]
             ELSE [ok |-> TRUE, value |-> Word_local, rest |-> Tail(stdin)]

\* ConflictResolver.promptUserChoice: an unrecognised line prompts again
RECURSIVE promptUserChoice(_)
promptUserChoice(stdin) ==
    IF stdin = NoInput THEN PromptError
    ELSE LET input == TrimSpace(ToLower(Head(stdin)))
         IN  IF input \in {<<"l">>, Word_local}
             THEN [ok |-> TRUE, value |-> Word_local, rest |-> Tail(stdin)]
             ELSE IF input \in {<<"r">>, Word_remote}
             THEN [ok |-> TRUE, value |-> Word_remote, rest |-> Tail(stdin)]
             ELSE IF input \in {<<"e">>, Word_edit}
             THEN [ok |-> TRUE, value |-> Word_edit, rest |-> Tail(stdin)]
             ELSE promptUserChoice(Tail(stdin))

\* ConflictResolver.promptUserEdit
promptUserEdit(stdin) ==
    IF stdin = NoInput THEN PromptError
    ELSE [ok |-> TRUE, value |-> TrimSpace(Head(stdin)), rest |-> Tail(stdin)]

NoBackups == {}

\* createBackup's writes: MkdirAll or the first WriteFile fails, the second
\* WriteFile fails, or all succeed
BackupOutcomes == {"ok", "local_fails", "remote_fails"}

\* ConflictResolver.createBackup: writes local-<ConflictTime>.env holding
\* generateEnvContent(LocalChanges), then remote-<ConflictTime>.env holding
\* generateEnvContent(RemoteChanges).  Both names are new with every conflict, so
\* the files of this conflict are the ones an earlier write of this call left.
createBackup(conflict, outcome) ==
    IF outcome = "local_fails"
    THEN [ok |-> FALSE, dir |-> {}]
    ELSE IF outcome = "remote_fails"
    THEN [ok |-> FALSE, dir |-> {"local"}]
    ELSE [ok |-> TRUE, dir |-> {"local", "remote"}]

\* the non-conflicting keys of both sides, remote written after local
NonConflicting(conflict) ==
    LET lk == {k \in DOMAIN conflict.LocalChanges : ~contains(conflict.Conflicts, k)}
        rk == {k \in DOMAIN conflict.RemoteChanges : ~contains(conflict.Conflicts, k)}
    IN  [k \in lk \cup rk |->
            IF k \in rk THEN conflict.RemoteChanges[k] ELSE conflict.LocalChanges[k]]

Overlay(base, top) ==
    [k \in (DOMAIN base) \cup (DOMAIN top) |-> IF k \in DOMAIN top THEN top[k] ELSE base[k]]

\* a strategy's result: the merged map and the text generated from it
Resolved(merged) ==
    [ok |-> TRUE, content |-> generateEnvContent(merged), merged |-> merged]
ResolveError == [ok |-> FALSE, content |-> <<>>, merged |-> EmptyEnv]

\* the loop of resolveManually over conflict.Conflicts, from its i-th key on
RECURSIVE ManualLoop(_, _, _, _)
ManualLoop(conflict, i, merged, stdin) ==
    IF i > Len(conflict.Conflicts) THEN Resolved(merged)
    ELSE LET key == conflict.Conflicts[i]
             choice == promptUserChoice(stdin)
             edit == promptUserEdit(choice.rest)
         IN  IF ~choice.ok THEN ResolveError
             ELSE IF choice.value = Word_local
             THEN ManualLoop(conflict, i + 1,
                             MapPut(merged, key, conflict.LocalChanges[key]), choice.rest)
             ELSE IF choice.value = Word_remote
             THEN ManualLoop(conflict, i + 1,
                             MapPut(merged, key, conflict.RemoteChanges[key]), choice.rest)
             ELSE IF ~edit.ok THEN ResolveError
             ELSE ManualLoop(conflict, i + 1, MapPut(merged, key, edit.value), edit.rest)

\* resolveManually falling back to the local side without a terminal
resolveManually_autoLocal(conflict, interactive, stdin) ==
    IF ~interactive
    THEN Resolved(Overlay(NonConflicting(conflict),
                          [k \in SeqToSet(conflict.Conflicts) |-> conflict.LocalChanges[k]]))
    ELSE ManualLoop(conflict, 1, NonConflicting(conflict), stdin)

\* ConflictResolver.resolveManually; stdin is what the terminal will deliver
resolveManually(conflict, interactive, stdin) ==
    IF ~interactive THEN ResolveError
    ELSE ManualLoop(conflict, 1, NonConflicting(conflict), stdin)

\* a marker that keeps the local value only
ConflictMarker_localOnly(localVal, remoteVal) ==
    <<"<", "<", "<", "<", "<", "<", "<", " ", "L", "O", "C", "A", "L", NL>>
    \o localVal \o <<NL, "=", "=", "=", "=", "=", "=", "=", NL>>
    \o <<NL, ">", ">", ">", ">", ">", ">", ">", " ", "R", "E", "M", "O", "T", "E">>

ConflictMarker(localVal, remoteVal) ==
    <<"<", "<", "<", "<", "<", "<", "<", " ", "L", "O", "C", "A", "L", NL>>
    \o localVal \o <<NL, "=", "=", "=", "=", "=", "=", "=", NL>>
    \o remoteVal \o <<NL, ">", ">", ">", ">", ">", ">", ">", " ", "R", "E", "M", "O", "T", "E">>

\* ConflictResolver.resolveWithMerge
resolveWithMerge(conflict) ==
    LET marked ==
            [k \in SeqToSet(conflict.Conflicts) |->
                ConflictMarker(conflict.LocalChanges[k], conflict.RemoteChanges[k])]
    IN  Resolved(Overlay(NonConflicting(conflict), marked))

\* ConflictResolver.resolveWithBackupMerge
resolveWithBackupMerge(conflict) ==
    Resolved(Overlay(conflict.RemoteChanges, conflict.LocalChanges))

\* the switch of ResolveConflict
ResolveByStrategy(conflict, res, stdin) ==
    CASE res.Strategy = "manual" -> resolveManually(conflict, res.InteractiveMode, stdin)
      [] res.Strategy = "local" -> Resolved(conflict.LocalChanges)
      [] res.Strategy = "remote" -> Resolved(conflict.RemoteChanges)
      [] res.Strategy = "merge" -> resolveWithMerge(conflict)
      [] res.Strategy = "backup" -> resolveWithBackupMerge(conflict)
      [] OTHER -> ResolveError

\* what the user may type during a sync: nothing (the terminal is closed), a
\* side, an edit with its value, an edit cut short, a mistyped line first
TerminalInputs ==
    {NoInput, <<<<"l">>>>, <<<<"R">>>>, <<<<"e">>, <<"7">>>>, <<<<"e">>>>,
     <<<<"x">>, <<"l">>>>}

\* only an interactive manual resolver reads the terminal
AnswerChoices(conflict, res) ==
    IF res.Strategy = "manual" /\ res.InteractiveMode
    THEN TerminalInputs
    ELSE {NoInput}

\* ConflictResolver.ResolveConflict over every outcome of its file writes and
\* prompts: the backup is attempted first and its failure only warned about
ResolveConflictWith(conflict, res, stdin, backup) ==
    [ok |-> ResolveByStrategy(conflict, res, stdin).ok,
     content |-> ResolveByStrategy(conflict, res, stdin).content,
     merged |-> ResolveByStrategy(conflict, res, stdin).merged,
     dir |-> createBackup(conflict, backup).dir,
     backedUp |-> createBackup(conflict, backup).ok]

ResolveConflict(conflict, res) ==
    {ResolveConflictWith(conflict, res, a, b) :
        a \in AnswerChoices(conflict, res), b \in BackupOutcomes}

-----------------------------------------------------------------------------
(* Sync orchestrator *)

\* what a step reports: the operation, whether it returned nil, the step that
\* failed, the branch taken, what DetectConflict returned, the number of
\* conflicting keys of its descriptor, whether ResolveConflict was called, and
\* whether saveState wrote the record
Report(op, ok, err, path, detect, nconf, resolved, saved) ==
    [op |-> op, ok |-> ok, err |-> err, path |-> path, detect |-> detect,
     nconf |-> nconf, resolved |-> resolved, saved |-> saved]

NoReport == Report("none", TRUE, "", "", "", 0, FALSE, FALSE)
EnvReport == Report("env", TRUE, "", "", "", 0, FALSE, FALSE)

\* why GetSecret failed, which Push cannot tell: the secret is missing (404), or
\* the vault could not be reached
FirstPath(rb) == IF rb.exists THEN "first_fetch_failed" ELSE "first_not_found"

Outcome(lf, rb, sf, bd, report) ==
    [localFile |-> lf, remoteBlob |-> rb, stateFile |-> sf, backupDir |-> bd,
     report |-> report]

\* SyncManager.performPush
performPush(rb, content, key, vaultUp) ==
    LET e == EncryptEnvContent(content, key)
    IN  IF ~e.ok THEN [ok |-> FALSE, err |-> "encrypt", blob |-> rb]
        ELSE IF ~StoreSecret(rb, e.data, vaultUp).ok
        THEN [ok |-> FALSE, err |-> "store", blob |-> rb]
        ELSE [ok |-> TRUE, err |-> "", blob |-> StoreSecret(rb, e.data, vaultUp).blob]

\* the SyncState Push and Pull save
UpdatedState(state, content, by, resolved) ==
    [LastSyncTime |-> ClockTime,
     LastKnownHash |-> calculateHash(content),
     LastSyncBy |-> by,
     ConflictCount |-> IF resolved THEN state.ConflictCount + 1 ELSE state.ConflictCount]

\* Push, first-push branch (manager.go 60-64): performPush and return its result
PushFirst(lf, rb, sf, bd) ==
    {LET p == performPush(rb, lf.content, TeamKey, up)
     IN  Outcome(lf, p.blob, sf, bd,
                 Report("push", p.ok, p.err, FirstPath(rb), "", 0, FALSE, FALSE)) :
        up \in BOOLEAN}

\* the state is saved before the result of performPush is looked at
PushStore_saveFirst(lf, rb, sf, bd, state, final, detect, nconf, resolved) ==
    {LET p == performPush(rb, final, TeamKey, up)
         saved_sf == saveState(sf, UpdatedState(state, final, "push", resolved), saved)
     IN  IF ~p.ok
         THEN Outcome(lf, rb, saved_sf, bd,
                      Report("push", FALSE, p.err, "sync", detect, nconf, resolved, saved))
         ELSE Outcome(lf, p.blob, saved_sf, bd,
                      Report("push", TRUE, "", "sync", detect, nconf, resolved, saved)) :
        up \in BOOLEAN, saved \in BOOLEAN}

\* Push from "Perform the push" on (manager.go 109-123)
PushStore(lf, rb, sf, bd, state, final, detect, nconf, resolved) ==
    {LET p == performPush(rb, final, TeamKey, up)
     IN  IF ~p.ok
         THEN Outcome(lf, rb, sf, bd,
                      Report("push", FALSE, p.err, "sync", detect, nconf, resolved, FALSE))
         ELSE Outcome(lf, p.blob,
                      saveState(sf, UpdatedState(state, final, "push", resolved), saved),
                      bd,
                      Report("push", TRUE, "", "sync", detect, nconf, resolved, saved)) :
        up \in BOOLEAN, saved \in BOOLEAN}

\* Push, conflict branch (manager.go 86-103)
PushConflict(lf, rb, sf, state, c, r) ==
    IF ~r.ok
    THEN {Outcome(lf, rb, sf, r.dir,
                  Report("push", FALSE, "resolve", "sync", "conflict", Len(c.Conflicts), TRUE, FALSE))}
    ELSE UNION {
        IF ~written
        THEN {Outcome(lf, rb, sf, r.dir,
                      Report("push", FALSE, "write", "sync", "conflict", Len(c.Conflicts), TRUE, FALSE))}
        ELSE PushStore(WriteLocal(lf, r.content, TRUE), rb, sf, r.dir, state,
                       r.content, "conflict", Len(c.Conflicts), TRUE) :
        written \in BOOLEAN}

\* Push after the remote secret was fetched (manager.go 66-123)
PushSync(lf, rb, sf, bd, res, value) ==
    LET d == DecryptEnvContent(value, TeamKey)
        state == LoadedState(sf)
        c == DetectConflict(lf.content, d.content, state.LastKnownHash)
    IN  IF ~d.ok
        THEN {Outcome(lf, rb, sf, bd, Report("push", FALSE, "decrypt", "sync", "", 0, FALSE, FALSE))}
        ELSE IF c.kind = "error"
        THEN {Outcome(lf, rb, sf, bd, Report("push", FALSE, "detect", "sync", "error", 0, FALSE, FALSE))}
        ELSE IF c.kind = "conflict"
        THEN IF state.ConflictCount >= MaxConflicts THEN {}
             ELSE UNION {PushConflict(lf, rb, sf, state, c, r) :
                            r \in ResolveConflict(c, res)}
        ELSE PushStore(lf, rb, sf, bd, state, lf.content, "none", 0, FALSE)

\* SyncManager.Push over every outcome of its I/O
PushOutcomes(lf, rb, sf, bd, res) ==
    IF ~lf.exists
    THEN {Outcome(lf, rb, sf, bd, Report("push", FALSE, "read", "", "", 0, FALSE, FALSE))}
    ELSE UNION {
        IF ~GetSecret(rb, up).ok
        THEN PushFirst(lf, rb, sf, bd)
        ELSE PushSync(lf, rb, sf, bd, res, GetSecret(rb, up).value) :
        up \in BOOLEAN}

\* Pull from "Write final content to local file" on (manager.go 189-204)
PullWrite(lf, rb, sf, bd, state, final, path, detect, nconf, resolved) ==
    {IF ~written
     THEN Outcome(lf, rb, sf, bd,
                  Report("pull", FALSE, "write", path, detect, nconf, resolved, FALSE))
     ELSE Outcome(WriteLocal(lf, final, TRUE), rb,
                  saveState(sf, UpdatedState(state, final, "pull", resolved), saved),
                  bd,
                  Report("pull", TRUE, "", path, detect, nconf, resolved, saved)) :
        written \in BOOLEAN, saved \in BOOLEAN}

\* Pull after the remote secret was fetched (manager.go 136-204)
PullSync(lf, rb, sf, bd, res, value) ==
    LET d == DecryptEnvContent(value, TeamKey)
        localContent == IF lf.exists THEN lf.content ELSE <<>>
        state == LoadedState(sf)
        c == DetectConflict(localContent, d.content, state.LastKnownHash)
    IN  IF ~d.ok
        THEN {Outcome(lf, rb, sf, bd, Report("pull", FALSE, "decrypt", "", "", 0, FALSE, FALSE))}
        ELSE IF Len(localContent) = 0
        THEN PullWrite(lf, rb, sf, bd, state, d.content, "create", "", 0, FALSE)
        ELSE IF c.kind = "error"
        THEN {Outcome(lf, rb, sf, bd, Report("pull", FALSE, "detect", "sync", "error", 0, FALSE, FALSE))}
        ELSE IF c.kind = "conflict"
        THEN IF state.ConflictCount >= MaxConflicts THEN {}
             ELSE UNION {
                 IF ~r.ok
                 THEN {Outcome(lf, rb, sf, r.dir,
                               Report("pull", FALSE, "resolve", "sync", "conflict",
                                      Len(c.Conflicts), TRUE, FALSE))}
                 ELSE PullWrite(lf, rb, sf, r.dir, state, r.content, "sync",
                                "conflict", Len(c.Conflicts), TRUE) :
                 r \in ResolveConflict(c, res)}
        ELSE PullWrite(lf, rb, sf, bd, state, d.content, "sync", "none", 0, FALSE)

\* SyncManager.Pull over every outcome of its I/O
PullOutcomes(lf, rb, sf, bd, res) ==
    UNION {
        IF ~GetSecret(rb, up).ok
        THEN {Outcome(lf, rb, sf, bd, Report("pull", FALSE, "fetch", "", "", 0, FALSE, FALSE))}
        ELSE PullSync(lf, rb, sf, bd, res, GetSecret(rb, up).value) :
        up \in BOOLEAN}

-----------------------------------------------------------------------------
(* The texts users write *)

T_A9 == <<"A", "=", "9", NL>>
T_A8 == <<"#", " ", "x", NL, "A", "=", "8", NL>>
T_B2 == <<"B", "=", "2", NL>>
T_FOO == <<"F", "O", "O", NL>>

\* what the user saves locally
LocalTexts == {T_A9, T_FOO}
\* what teammates store remotely under the team key
RemoteTexts == {T_A8, T_B2}
\* what a teammate holding another key stores
StrayTexts == {T_B2}

-----------------------------------------------------------------------------
(* File watcher: the state NewFileWatcher leaves *)

\* Start skips a change handled less than this many seconds after a pull
GuardInterval == 3

\* nothing is offered on w.watcher.Events
NoEvent == [Name |-> "none", Op |-> {}, inGuard |-> FALSE, spaced |-> FALSE]

\* what reader.ReadString meets when os.Stdin is closed
ReadError == <<"EOF">>

\* NewFileWatcher: the fields Start reads; lastPullTime is left the zero time,
\* so time.Since(w.lastPullTime) is beyond every interval
NewFileWatcher(enablePush, confirmPush, debounceTime) ==
    /\ fw = [EnablePush |-> enablePush, ConfirmPush |-> confirmPush,
             DebounceTime |-> debounceTime]
    /\ pc = "new"
    /\ ret = "none"
    /\ running = {}
    /\ sincePull = GuardInterval
    /\ sinceChange = debounceTime + 1
    /\ sinceAccept = debounceTime + 1
    /\ watches = {}
    /\ reported = {}

\* nothing has happened around the watcher yet
WatchEnvInit ==
    /\ events = NoEvent
    /\ ctxDone = FALSE
    /\ stopCall = "none"
    /\ terminal = NoInput

\* a watcher that is constructed and never started
WatchIdle == NewFileWatcher(FALSE, FALSE, 1) /\ WatchEnvInit

-----------------------------------------------------------------------------
(* Actions *)

Apply(o) ==
    /\ localFile' = o.localFile
    /\ remoteBlob' = o.remoteBlob
    /\ stateFile' = o.stateFile
    /\ backupDir' = o.backupDir
    /\ last' = o.report
    /\ UNCHANGED <<resolver, detectVars, watchVars>>

\* one call of SyncManager.Push
Push ==
    \E o \in PushOutcomes(localFile, remoteBlob, stateFile, backupDir, resolver) :
        Apply(o)

\* one call of SyncManager.Pull
Pull ==
    \E o \in PullOutcomes(localFile, remoteBlob, stateFile, backupDir, resolver) :
        Apply(o)

\* the user saves the local file
EditLocal ==
    \E t \in LocalTexts :
        /\ localFile' = File(t)
        /\ last' = EnvReport
        /\ UNCHANGED <<remoteBlob, stateFile, backupDir, resolver, detectVars, watchVars>>

\* the user deletes the local file
RemoveLocal ==
    /\ localFile.exists
    /\ localFile' = NoFile
    /\ last' = EnvReport
    /\ UNCHANGED <<remoteBlob, stateFile, backupDir, resolver, detectVars, watchVars>>

\* a teammate stores a new version of the secret
EditRemote ==
    \E k \in {TeamKey, OtherKey} :
      \E t \in IF k = TeamKey THEN RemoteTexts ELSE StrayTexts :
        /\ remoteBlob' = Secret(EncryptEnvContent(t, k).data)
        /\ last' = EnvReport
        /\ UNCHANGED <<localFile, stateFile, backupDir, resolver, detectVars, watchVars>>

\* the state file is truncated or hand-edited into something json.Unmarshal rejects
DamageState ==
    /\ stateFile.status = "ok"
    /\ stateFile' = DamagedStateFile(stateFile.state)
    /\ last' = EnvReport
    /\ UNCHANGED <<localFile, remoteBlob, backupDir, resolver, detectVars, watchVars>>

\* NewSyncManager: the strategy and the interactive flag are fixed at construction
Resolvers ==
    {[Strategy |-> s, InteractiveMode |-> FALSE] : s \in Strategies}
    \cup {[Strategy |-> "manual", InteractiveMode |-> TRUE]}

SyncInit ==
    /\ localFile = NoFile
    /\ remoteBlob = NoSecret
    /\ stateFile = NoStateFile
    /\ backupDir = NoBackups
    /\ resolver \in Resolvers
    /\ last = NoReport

DetectIdle ==
    /\ dIn = [localContent |-> <<>>, remoteContent |-> <<>>, lastKnownHash |-> EmptyHash]
    /\ dOut = [kind |-> "idle"]

Init == SyncInit /\ DetectIdle /\ WatchIdle

Next == Push \/ Pull \/ EditLocal \/ RemoveLocal \/ EditRemote \/ DamageState

Spec == Init /\ [][Next]_vars

-----------------------------------------------------------------------------
(* DetectConflict applied to every short text *)

DetectAlphabet == {"A", "=", NL}

RECURSIVE TextsUpTo(_)
TextsUpTo(n) ==
    IF n = 0 THEN {<<>>}
    ELSE LET shorter == TextsUpTo(n - 1)
         IN  shorter \cup {Append(t, c) : t \in {s \in shorter : Len(s) = n - 1},
                                          c \in DetectAlphabet}

DetectTexts == TextsUpTo(MaxTextLen)

\* a reference point that is neither side's hash unless a side is this text
OtherText == <<"A", "=", "A", NL, "A">>

Pending == [kind |-> "pending"]

DetectInit ==
    /\ \E l \in DetectTexts, r \in DetectTexts :
         \E h \in {EmptyHash, calculateHash(l), calculateHash(r), calculateHash(OtherText)} :
            dIn = [localContent |-> l, remoteContent |-> r, lastKnownHash |-> h]
    /\ dOut = Pending

RunDetect ==
    /\ dOut = Pending
    /\ dOut' = DetectConflict(dIn.localContent, dIn.remoteContent, dIn.lastKnownHash)
    /\ UNCHANGED <<dIn, syncVars, watchVars>>

SyncIdle ==
    /\ localFile = NoFile
    /\ remoteBlob = NoSecret
    /\ stateFile = NoStateFile
    /\ backupDir = NoBackups
    /\ resolver = [Strategy |-> "manual", InteractiveMode |-> FALSE]
    /\ last = NoReport

InitDetect == DetectInit /\ SyncIdle /\ WatchIdle

SpecDetect == InitDetect /\ [][RunDetect]_vars

-----------------------------------------------------------------------------
(* generateEnvContent then parseEnvContent applied to every small mapping *)

CodecKeys == {<<"A">>, <<"B">>}
CodecChars == {"1", " ", "=", DQ, SQ}

RECURSIVE SeqsUpTo(_, _)
SeqsUpTo(S, n) ==
    IF n = 0 THEN {<<>>}
    ELSE LET shorter == SeqsUpTo(S, n - 1)
         IN  shorter \cup {Append(t, c) : t \in {x \in shorter : Len(x) = n - 1}, c \in S}

\* every map[string]string over the keys K with values in V
EnvsOver(K, V) == UNION {[D -> V] : D \in SUBSET K}

CodecInit ==
    /\ \E m \in EnvsOver(CodecKeys, SeqsUpTo(CodecChars, MaxValueLen)) :
         dIn = [env |-> m]
    /\ dOut = Pending
    /\ SyncIdle
    /\ WatchIdle

RunCodec ==
    /\ dOut = Pending
    /\ dOut' = [kind |-> "parsed",
                content |-> generateEnvContent(dIn.env),
                ok |-> parseEnvContent(generateEnvContent(dIn.env)).ok,
                env |-> parseEnvContent(generateEnvContent(dIn.env)).env]
    /\ UNCHANGED <<dIn, syncVars, watchVars>>

SpecCodec == CodecInit /\ [][RunCodec]_vars

-----------------------------------------------------------------------------
(* ResolveConflict applied to every descriptor of two small mappings *)

ResolveKeys == {<<"A">>, <<"B">>}
ResolveValues == {<<"1">>, <<"2">>}

\* what the user types: a side, an edit, or a line that is no choice
TypedLines == {<<"l">>, <<"R">>, <<"e">>, <<" ", "x">>}

\* the descriptors DetectConflict builds from two files, neither of which is
\* the last synced one
Descriptors ==
    {DetectConflict(generateEnvContent(l), generateEnvContent(r), EmptyHash) :
        l \in EnvsOver(ResolveKeys, ResolveValues),
        r \in EnvsOver(ResolveKeys, ResolveValues)} \ {NoConflict}

ResolveInit ==
    /\ \E c \in Descriptors, res \in Resolvers, b \in BackupOutcomes :
         \E stdin \in IF res.Strategy = "manual" /\ res.InteractiveMode
                       THEN SeqsUpTo(TypedLines, MaxLines)
                       ELSE {NoInput} :
            dIn = [conflict |-> c, resolver |-> res, stdin |-> stdin, backup |-> b]
    /\ dOut = Pending
    /\ SyncIdle
    /\ WatchIdle

RunResolve ==
    /\ dOut = Pending
    /\ dOut' = ResolveConflictWith(dIn.conflict, dIn.resolver, dIn.stdin, dIn.backup)
    /\ UNCHANGED <<dIn, syncVars, watchVars>>

SpecResolve == ResolveInit /\ [][RunResolve]_vars

-----------------------------------------------------------------------------
(* EncryptEnvContent then DecryptEnvContent applied to every small text *)

\* the team's key, another 32-byte key, and keys ValidateEncryptionKey must
\* refuse although AES itself would take the first
CipherKeys ==
    {TeamKey, OtherKey, [id |-> "aes128", len |-> 16], [id |-> "long", len |-> 33]}

InitCipher ==
    /\ \E p \in DetectTexts, k \in CipherKeys, other \in CipherKeys :
         dIn = [plaintext |-> p, key |-> k, other |-> other]
    /\ dOut = Pending
    /\ SyncIdle
    /\ WatchIdle

\* seal under key, open under key, and open under other what TeamKey sealed
RunCipher ==
    /\ dOut = Pending
    /\ dOut' = [kind |-> "cipher",
                sealed |-> EncryptEnvContent(dIn.plaintext, dIn.key),
                opened |-> DecryptEnvContent(
                              EncryptEnvContent(dIn.plaintext, dIn.key).data, dIn.key),
                foreign |-> DecryptEnvContent(
                              EncryptEnvContent(dIn.plaintext, TeamKey).data, dIn.other)]
    /\ UNCHANGED <<dIn, syncVars, watchVars>>

SpecCipher == InitCipher /\ [][RunCipher]_vars

-----------------------------------------------------------------------------
(* File watcher: FileWatcher.Start, FileWatcher.Stop and what surrounds them *)

\* event.Name: the watched path itself, another spelling of it with the same
\* base name (as a directory watch reports it), or any other path
EventNames == {"target", "base", "other"}
\* fsnotify.Op, a set of bits
EventOps == {"Write", "Create", "Rename", "Remove", "Chmod"}
\* the values of event.Op met here: one bit, or Write together with Chmod
EventOpSets == {{op} : op \in EventOps} \cup {{"Write", "Chmod"}}

\* line 99
isTargetFile(event) == event.Name \in {"target", "base"}

\* every operation counts as a change, Remove and Chmod too
isChange_anyOp(event) == event.Op # {}

\* lines 122-124
isChange(event) == event.Op \cap {"Write", "Create", "Rename"} # {}

\* the event fsnotify offers for ops on name; inGuard and spaced record when
\* it happened (history): less than GuardInterval after the recorded pull
\* time, more than the debounce interval after the last accepted change
Event(name, ops) ==
    LET e == [Name |-> name, Op |-> ops]
    IN  [Name |-> name, Op |-> ops,
         inGuard |-> isTargetFile(e) /\ isChange(e) /\ sincePull < GuardInterval,
         spaced |-> isTargetFile(e) /\ isChange(e) /\ sinceAccept > fw.DebounceTime]

\* what the user may answer to "Push changes to remote? [y/N]"
ConfirmLines ==
    {<<"y", NL>>, <<"Y", NL>>, <<"y", "e", "s", NL>>, <<" ", "Y", "E", "S", " ", NL>>,
     <<"n", NL>>, <<NL>>, <<"y", "e", NL>>}

\* the caller pressed Enter and the answer is taken as yes
promptUserForPush_defaultYes(input) ==
    /\ input # ReadError
    /\ TrimSpace(ToLower(input)) \in {<<>>, <<"y">>, <<"y", "e", "s">>}

\* promptUserForPush
promptUserForPush(input) ==
    /\ input # ReadError
    /\ TrimSpace(ToLower(input)) \in {<<"y">>, <<"y", "e", "s">>}

\* Start returns: the deferred close(w.done) wakes a Stop blocked in its send
\* with a panic, the deferred w.watcher.Close() drops every registration
Return(value) ==
    /\ pc' = "returned"
    /\ ret' = value
    /\ watches' = {}
    /\ events' = NoEvent
    /\ stopCall' = IF stopCall = "blocked" THEN "panicked" ELSE stopCall

\* a callback's error is printed and the loop selects again
Resume_fatal(err, registered) ==
    IF err THEN Return("error")
    ELSE /\ pc' = "select"
         /\ watches' = registered
         /\ UNCHANGED <<ret, events, stopCall>>

\* lines 147-151 and 177-179: whatever the callback returned, the loop goes on
Resume(err, registered) ==
    /\ pc' = "select"
    /\ watches' = registered
    /\ UNCHANGED <<ret, events, stopCall>>

\* the callback is started on a goroutine of its own
InvokeOnChange_async ==
    /\ pc' = "select"
    /\ running' = running \cup {"push"}

\* line 147: w.OnChangeFunc() is called and the loop waits for it
InvokeOnChange ==
    /\ pc' = "push"
    /\ running' = running \cup {"push"}

\* line 177: w.OnPeriodicFunc() is called and the loop waits for it
InvokeOnPeriodic ==
    /\ pc' = "pull"
    /\ running' = running \cup {"pull"}

\* a parent directory that cannot be watched makes Start give up as well
Start_parentFatal ==
    /\ pc = "new"
    /\ \E file \in BOOLEAN, parent \in BOOLEAN :
         IF ~file \/ ~parent
         THEN Return("error")
         ELSE /\ pc' = "select"
              /\ watches' = {"file", "parent"}
              /\ UNCHANGED <<ret, events, stopCall>>
    /\ sinceChange' = fw.DebounceTime + 1
    /\ reported' = {}
    /\ UNCHANGED <<fw, running, sincePull, sinceAccept, ctxDone, terminal>>
    /\ UNCHANGED <<syncVars, detectVars>>

\* lines 52-84
Start ==
    /\ pc = "new"
    /\ \E file \in BOOLEAN, parent \in BOOLEAN :
         IF ~file
         THEN Return("error")
         ELSE /\ pc' = "select"
              /\ watches' = {"file"} \cup (IF parent THEN {"parent"} ELSE {})
              /\ UNCHANGED <<ret, events, stopCall>>
    /\ sinceChange' = fw.DebounceTime + 1
    /\ reported' = {}
    /\ UNCHANGED <<fw, running, sincePull, sinceAccept, ctxDone, terminal>>
    /\ UNCHANGED <<syncVars, detectVars>>

\* cancellation is looked at only when no event is offered
OnCancel_afterEvents ==
    /\ pc = "select"
    /\ ctxDone
    /\ events = NoEvent
    /\ Return("nil")
    /\ reported' = {}
    /\ UNCHANGED <<fw, running, sincePull, sinceChange, sinceAccept,
                   ctxDone, terminal>>
    /\ UNCHANGED <<syncVars, detectVars>>

\* lines 87-89
OnCancel ==
    /\ pc = "select"
    /\ ctxDone
    /\ Return("nil")
    /\ reported' = {}
    /\ UNCHANGED <<fw, running, sincePull, sinceChange, sinceAccept, ctxDone, terminal>>
    /\ UNCHANGED <<syncVars, detectVars>>

\* lines 102-117: a Create of the exact path drops and re-adds the watch
Rewatches(event) == event.Name = "target" /\ "Create" \in event.Op

\* w.EnablePush is not looked at
Verdict_pushAlways(event) ==
    IF isTargetFile(event)
    THEN IF isChange(event)
         THEN IF sincePull < GuardInterval THEN "guard"
              ELSE IF sinceChange > fw.DebounceTime THEN "accept"
              ELSE "debounce"
         ELSE "ignore"
    ELSE "nontarget"

\* lines 119-168: what the loop decides about an event
Verdict(event) ==
    IF fw.EnablePush /\ isTargetFile(event)
    THEN IF isChange(event)
         THEN IF sincePull < GuardInterval THEN "guard"
              ELSE IF sinceChange > fw.DebounceTime THEN "accept"
              ELSE "debounce"
         ELSE "ignore"
    ELSE IF ~isTargetFile(event) THEN "nontarget"
    ELSE "disabled"

\* lines 90-168, up to the prompt or the callback an accepted change leads to
OnEvent ==
    /\ pc = "select"
    /\ events # NoEvent
    /\ events' = NoEvent
    /\ \E added \in BOOLEAN :
         IF Rewatches(events)
         THEN /\ watches' = (watches \ {"file"}) \cup (IF added THEN {"file"} ELSE {})
              /\ reported' = IF added THEN {} ELSE {"rewatch"}
         ELSE /\ watches' = watches
              /\ reported' = {}
    /\ IF Verdict(events) = "accept"
       THEN /\ sinceAccept' = 0
            /\ IF fw.ConfirmPush
               THEN pc' = "prompt" /\ running' = running
               ELSE InvokeOnChange
       ELSE UNCHANGED <<pc, running, sinceAccept>>
    /\ UNCHANGED <<fw, ret, sincePull, sinceChange, ctxDone, stopCall,
                   terminal>>
    /\ UNCHANGED <<syncVars, detectVars>>

\* a refusal leaves lastChange where it was
PromptReturns_declineKeeps ==
    /\ pc = "prompt"
    /\ terminal # NoInput
    /\ terminal' = NoInput
    /\ reported' = IF Head(terminal) = ReadError THEN {"read"} ELSE {}
    /\ IF promptUserForPush(Head(terminal))
       THEN InvokeOnChange
       ELSE pc' = "select" /\ UNCHANGED running
    /\ UNCHANGED <<fw, ret, sincePull, sinceChange, sinceAccept, watches, events,
                   ctxDone, stopCall>>
    /\ UNCHANGED <<syncVars, detectVars>>

\* lines 142-156: the answer is read; a refusal still moves lastChange
PromptReturns ==
    /\ pc = "prompt"
    /\ terminal # NoInput
    /\ terminal' = NoInput
    /\ reported' = IF Head(terminal) = ReadError THEN {"read"} ELSE {}
    /\ IF promptUserForPush(Head(terminal))
       THEN /\ InvokeOnChange
            /\ UNCHANGED sinceChange
       ELSE /\ pc' = "select"
            /\ sinceChange' = 0
            /\ UNCHANGED running
    /\ UNCHANGED <<fw, ret, sincePull, sinceAccept, watches, events, ctxDone, stopCall>>
    /\ UNCHANGED <<syncVars, detectVars>>

\* lines 147-156: w.OnChangeFunc returns, then lastChange = time.Now()
PushReturns ==
    /\ "push" \in running
    /\ running' = running \ {"push"}
    /\ \E err \in BOOLEAN :
         /\ reported' = IF err THEN {"push"} ELSE {}
         /\ Resume(err, watches)
    /\ sinceChange' = 0
    /\ UNCHANGED <<fw, sincePull, sinceAccept, ctxDone, terminal>>
    /\ UNCHANGED <<syncVars, detectVars>>

\* lines 169-173
OnError ==
    /\ pc = "select"
    /\ watches # {}
    /\ reported' = {"watcher"}
    /\ UNCHANGED <<fw, pc, ret, running, sincePull, sinceChange, sinceAccept, watches,
                   events, ctxDone, stopCall, terminal>>
    /\ UNCHANGED <<syncVars, detectVars>>

\* the pull time is recorded only once the callback has returned
OnTick_recordAfter ==
    /\ pc = "select"
    /\ InvokeOnPeriodic
    /\ reported' = {}
    /\ UNCHANGED <<fw, ret, sincePull, sinceChange, sinceAccept, watches, events,
                   ctxDone, stopCall, terminal>>
    /\ UNCHANGED <<syncVars, detectVars>>

\* lines 174-177: ticker.C delivers a tick; w.lastPullTime = time.Now(), then
\* the callback
OnTick ==
    /\ pc = "select"
    /\ sincePull' = 0
    /\ InvokeOnPeriodic
    /\ reported' = {}
    /\ UNCHANGED <<fw, ret, sinceChange, sinceAccept, watches, events, ctxDone,
                   stopCall, terminal>>
    /\ UNCHANGED <<syncVars, detectVars>>

\* what os.Stat and w.watcher.Add meet during a health check
HealthOutcomes == {"missing", "added", "already", "readded", "failed"}

\* ensureWatcherActive
ensureWatcherActive(outcome) ==
    CASE outcome = "missing" -> [ok |-> TRUE, watches |-> watches]
      [] outcome = "added" -> [ok |-> TRUE, watches |-> watches \cup {"file"}]
      [] outcome = "already" -> [ok |-> TRUE, watches |-> watches]
      [] outcome = "readded" -> [ok |-> TRUE, watches |-> watches \cup {"file"}]
      [] OTHER -> [ok |-> FALSE, watches |-> watches \ {"file"}]

\* lines 177-188: w.OnPeriodicFunc returns, then the health check when due
PullReturns ==
    /\ "pull" \in running
    /\ running' = running \ {"pull"}
    /\ \E err \in BOOLEAN, due \in BOOLEAN, outcome \in HealthOutcomes :
         LET check == IF due THEN ensureWatcherActive(outcome)
                      ELSE [ok |-> TRUE, watches |-> watches]
         IN  /\ reported' = (IF err THEN {"pull"} ELSE {})
                              \cup (IF check.ok THEN {} ELSE {"health"})
             /\ Resume(err, check.watches)
    /\ UNCHANGED <<fw, sincePull, sinceChange, sinceAccept, ctxDone,
                   terminal>>
    /\ UNCHANGED <<syncVars, detectVars>>

\* FileWatcher.Stop: a send on w.done, which Start never receives from
Stop ==
    /\ stopCall = "none"
    /\ stopCall' = IF pc = "returned" THEN "panicked" ELSE "blocked"
    /\ UNCHANGED <<fw, pc, ret, running, sincePull, sinceChange, sinceAccept, watches,
                   events, ctxDone, terminal, reported>>
    /\ UNCHANGED <<syncVars, detectVars>>

\* the caller cancels ctx
Cancel ==
    /\ ~ctxDone
    /\ ctxDone' = TRUE
    /\ UNCHANGED <<fw, pc, ret, running, sincePull, sinceChange, sinceAccept, watches,
                   events, stopCall, terminal, reported>>
    /\ UNCHANGED <<syncVars, detectVars>>

\* the user answers the prompt, or os.Stdin is closed
TypeLine ==
    /\ pc = "prompt"
    /\ terminal = NoInput
    /\ \E line \in ConfirmLines \cup {ReadError} : terminal' = <<line>>
    /\ UNCHANGED <<fw, pc, ret, running, sincePull, sinceChange, sinceAccept, watches,
                   events, ctxDone, stopCall, reported>>
    /\ UNCHANGED <<syncVars, detectVars>>

Later(age, cap) == IF age < cap THEN age + 1 ELSE cap

\* a second passes; a loop waiting in select with an event offered or ctx
\* cancelled takes that case before it does
Advance ==
    /\ pc \notin {"new", "returned"}
    /\ pc = "select" => (events = NoEvent /\ ~ctxDone)
    /\ sincePull' = Later(sincePull, GuardInterval)
    /\ sinceChange' = Later(sinceChange, fw.DebounceTime + 1)
    /\ sinceAccept' = Later(sinceAccept, fw.DebounceTime + 1)
    /\ <<sincePull', sinceChange', sinceAccept'>> # <<sincePull, sinceChange, sinceAccept>>
    /\ UNCHANGED <<fw, pc, ret, running, watches, events, ctxDone, stopCall,
                   terminal, reported>>
    /\ UNCHANGED <<syncVars, detectVars>>

\* something happens in the watched directory and fsnotify offers the event.
\* The file's own registration reports what happens to its inode; a Create
\* of the path (a new file, or one renamed over it) is seen only through the
\* directory and leaves the file's registration on the old inode, as a Remove
\* or Rename of the path does
Deliver ==
    /\ pc \notin {"new", "returned"}
    /\ events = NoEvent
    /\ \E name \in EventNames, ops \in EventOpSets :
         /\ IF name = "target" /\ "Create" \notin ops
            THEN watches # {}
            ELSE "parent" \in watches
         /\ events' = Event(name, ops)
         /\ watches' = IF name = "target" /\ ops \cap {"Create", "Remove", "Rename"} # {}
                       THEN watches \ {"file"}
                       ELSE watches
    /\ UNCHANGED <<fw, pc, ret, running, sincePull, sinceChange, sinceAccept, ctxDone, stopCall, terminal, reported>>
    /\ UNCHANGED <<syncVars, detectVars>>

InitWatch ==
    /\ \E enablePush \in BOOLEAN, confirmPush \in BOOLEAN, debounceTime \in 1..MaxDebounce :
         NewFileWatcher(enablePush, confirmPush, debounceTime)
    /\ WatchEnvInit
    /\ SyncIdle
    /\ DetectIdle

WatchNext ==
    \/ Start \/ OnCancel \/ OnEvent \/ PromptReturns \/ PushReturns \/ OnError
    \/ OnTick \/ PullReturns \/ Stop \/ Cancel \/ TypeLine
    \/ Advance \/ Deliver

SpecWatch == InitWatch /\ [][WatchNext]_vars

\* select picks among its ready cases at random, so a case that is ready again
\* and again is taken; a started callback returns, a prompt is answered
SpecWatchFair ==
    /\ InitWatch
    /\ [][WatchNext]_vars
    /\ SF_vars(OnCancel)
    /\ WF_vars(PushReturns)
    /\ WF_vars(PullReturns)
    /\ WF_vars(PromptReturns)
    /\ WF_vars(TypeLine)

-----------------------------------------------------------------------------
(* What the claims read *)

\* the plaintext sealed in the remote blob
RemotePlain(rb) == rb.data.pt

\* the persisted record as loadState would hand it to the next operation
StoredHash(sf) == LoadedState(sf).LastKnownHash
StoredCount(sf) == LoadedState(sf).ConflictCount

SyncOp(report) == report.op \in {"push", "pull"}

\* every vault and file call the operation made succeeded (the first-push
\* branch makes no saveState call)
NoFault(report) ==
    /\ report.path # "first_fetch_failed"
    /\ report.saved \/ report.path = "first_not_found"

-----------------------------------------------------------------------------
(* C1: convergence.  Immediately after any push or pull that returns        *)
(* success, the persisted last-known hash equals the hash of the local      *)
(* file's text and the hash of the remote blob's plaintext.                 *)
C1_Convergence ==
    (SyncOp(last) /\ last.ok) =>
        /\ localFile.exists
        /\ remoteBlob.exists
        /\ stateFile.status = "ok"
        /\ stateFile.state.LastKnownHash = calculateHash(localFile.content)
        /\ stateFile.state.LastKnownHash = calculateHash(RemotePlain(remoteBlob))

(* C2: idempotence.  When a successful push (pull) is followed directly by  *)
(* another successful push (pull), no vault or file call failing in either, *)
(* the second run's detect returns none and leaves the local file, the      *)
(* remote plaintext, the stored hash and the conflict count as the first    *)
(* run left them.                                                           *)
C2_Idempotent ==
    [][(/\ SyncOp(last) /\ last.ok /\ NoFault(last)
        /\ last'.op = last.op /\ last'.ok /\ NoFault(last'))
       => (/\ last'.detect = "none"
           /\ localFile' = localFile
           /\ RemotePlain(remoteBlob') = RemotePlain(remoteBlob)
           /\ StoredHash(stateFile') = StoredHash(stateFile)
           /\ StoredCount(stateFile') = StoredCount(stateFile))]_vars

(* C3: a successful pull that starts with hash(remote) equal to the stored  *)
(* last-known hash and a local file that differs from remote (only local    *)
(* moved) leaves the local file holding its pre-pull text.                  *)
C3_PullKeepsLocalEdit ==
    [][(/\ last'.op = "pull" /\ last'.ok
        /\ localFile.exists /\ remoteBlob.exists
        /\ calculateHash(RemotePlain(remoteBlob)) = StoredHash(stateFile)
        /\ localFile.content # RemotePlain(remoteBlob))
       => localFile' = localFile]_vars

(* C4: a successful push that starts with hash(local) equal to the stored   *)
(* last-known hash and a remote plaintext that differs from local (only     *)
(* remote moved) leaves the remote blob holding its pre-push plaintext.     *)
C4_PushKeepsRemoteEdit ==
    [][(/\ last'.op = "push" /\ last'.ok
        /\ localFile.exists /\ remoteBlob.exists
        /\ calculateHash(localFile.content) = StoredHash(stateFile)
        /\ localFile.content # RemotePlain(remoteBlob))
       => RemotePlain(remoteBlob') = RemotePlain(remoteBlob)]_vars

(* C5: when the fetch of a push fails although the remote blob exists (not  *)
(* a NotFound), push returns an error and leaves the remote blob, the local *)
(* file and the sync-state record unchanged; the first-push path is taken   *)
(* only when the blob is missing.                                           *)
C5_FetchFailurePropagated ==
    [][(last'.op = "push" /\ last'.path = "first_fetch_failed")
       => (/\ ~last'.ok
           /\ UNCHANGED <<localFile, remoteBlob, stateFile>>)]_vars

(* C6: a push that returns an error because the remote store call failed    *)
(* leaves the local file, the remote blob and the sync-state record as they *)
(* were before the push.                                                    *)
C6_StoreFailureMutatesNothing ==
    [][(last'.op = "push" /\ ~last'.ok /\ last'.err = "store")
       => UNCHANGED <<localFile, remoteBlob, stateFile>>]_vars

(* C7: after a push that found the remote blob absent and returned success, *)
(* the remote blob holds the encryption of the local text and the persisted *)
(* sync-state record has last-known hash = hash(local text), actor = push.  *)
C7_FirstPushPersistsState ==
    (last.op = "push" /\ last.ok /\ last.path = "first_not_found") =>
        /\ remoteBlob = Secret(EncryptEnvContent(localFile.content, TeamKey).data)
        /\ stateFile.status = "ok"
        /\ stateFile.state.LastKnownHash = calculateHash(localFile.content)
        /\ stateFile.state.LastSyncBy = "push"

(* C8: when detect returns a descriptor whose conflicting-key set is empty  *)
(* (both sides moved, on disjoint keys only), push does not run the         *)
(* resolver, does not overwrite the local file and does not raise the       *)
(* conflict count.                                                          *)
C8_DisjointChangesNotResolved ==
    [][(last'.op = "push" /\ last'.detect = "conflict" /\ last'.nconf = 0)
       => (/\ ~last'.resolved
           /\ localFile' = localFile
           /\ StoredCount(stateFile') = StoredCount(stateFile))]_vars

-----------------------------------------------------------------------------
(* C9: detect(x, x, h) returns none -- no descriptor and no error -- for    *)
(* every text x, parseable or not, and every last-known hash h.             *)
C9_IdenticalIsNone ==
    (dOut # Pending /\ dIn.localContent = dIn.remoteContent) => dOut = NoConflict

\* an unparseable text compared with itself has been through DetectConflict
C9_Witness ==
    /\ dOut # Pending
    /\ dIn.localContent = dIn.remoteContent
    /\ ~parseEnvContent(dIn.localContent).ok
    /\ dIn.lastKnownHash # calculateHash(dIn.localContent)

(* C10: for local # remote, if hash(local) or hash(remote) equals the       *)
(* last-known hash then detect returns none, whether or not the texts parse. *)
C10_FastForwardIsNone ==
    (/\ dOut # Pending
     /\ dIn.localContent # dIn.remoteContent
     /\ \/ calculateHash(dIn.localContent) = dIn.lastKnownHash
        \/ calculateHash(dIn.remoteContent) = dIn.lastKnownHash)
    => dOut = NoConflict

\* only local moved, and the moved local text does not parse
C10_Witness ==
    /\ dOut # Pending
    /\ dIn.localContent # dIn.remoteContent
    /\ calculateHash(dIn.remoteContent) = dIn.lastKnownHash
    /\ ~parseEnvContent(dIn.localContent).ok

-----------------------------------------------------------------------------
(* C11: in every descriptor DetectConflict returns, a key is in Conflicts   *)
(* exactly when both LocalChanges and RemoteChanges hold it with unequal    *)
(* values; a key only one side holds is never in Conflicts.                 *)
C11_ConflictsAreSharedUnequalKeys ==
    dOut.kind = "conflict" =>
        \A k \in (DOMAIN dOut.LocalChanges) \cup (DOMAIN dOut.RemoteChanges)
                  \cup SeqToSet(dOut.Conflicts) :
            contains(dOut.Conflicts, k) <=>
                /\ k \in DOMAIN dOut.LocalChanges
                /\ k \in DOMAIN dOut.RemoteChanges
                /\ dOut.LocalChanges[k] # dOut.RemoteChanges[k]

\* a descriptor in which one side holds a key the other lacks
C11_Witness ==
    /\ dOut.kind = "conflict"
    /\ DOMAIN dOut.LocalChanges # DOMAIN dOut.RemoteChanges
    /\ dOut.Conflicts = <<>>

-----------------------------------------------------------------------------
(* C12: codec round trip.  For every mapping with non-empty keys and no     *)
(* newline in a key or value -- values holding spaces, '=', quote           *)
(* characters, or wrapped in a matching pair of quotes included --          *)
(* parseEnvContent(generateEnvContent(m)) succeeds and equals m.            *)
C12_RoundTrip ==
    dOut # Pending => (dOut.ok /\ dOut.env = dIn.env)

(* C13: every text a resolution returns -- generateEnvContent applied to    *)
(* the mapping the policy built -- is accepted by parseEnvContent.          *)
C13_ResolvedTextParses ==
    (dOut # Pending /\ dOut.ok) => parseEnvContent(dOut.content).ok

\* the harness has applied ResolveConflict with this strategy
ResolvedBy(strategy) == dOut # Pending /\ dIn.resolver.Strategy = strategy

(* C14: local-wins.  For every descriptor the resolved text is the          *)
(* serialization of the remote mapping overlaid by the local mapping.       *)
C14_LocalWinsOverlay ==
    ResolvedBy("local") =>
        /\ dOut.ok
        /\ dOut.content =
             generateEnvContent(Overlay(dIn.conflict.RemoteChanges,
                                        dIn.conflict.LocalChanges))

(* C15: remote-wins.  For every descriptor the resolved text is the         *)
(* serialization of the local mapping overlaid by the remote mapping.       *)
C15_RemoteWinsOverlay ==
    ResolvedBy("remote") =>
        /\ dOut.ok
        /\ dOut.content =
             generateEnvContent(Overlay(dIn.conflict.LocalChanges,
                                        dIn.conflict.RemoteChanges))

(* C16: merge-markers.  In the mapping the merge policy builds, the value   *)
(* of every conflicting key contains the local and the remote value         *)
(* verbatim, and every other key of either side has its own value; the     *)
(* resolved text is generated from that mapping.                            *)
C16_MergeKeepsBothValues ==
    ResolvedBy("merge") =>
        LET c == dIn.conflict
        IN  /\ dOut.ok
            /\ dOut.content = generateEnvContent(dOut.merged)
            /\ DOMAIN dOut.merged = (DOMAIN c.LocalChanges) \cup (DOMAIN c.RemoteChanges)
            /\ \A k \in DOMAIN dOut.merged :
                 IF contains(c.Conflicts, k)
                 THEN /\ IsInfix(c.LocalChanges[k], dOut.merged[k])
                      /\ IsInfix(c.RemoteChanges[k], dOut.merged[k])
                 ELSE /\ k \in DOMAIN c.LocalChanges => dOut.merged[k] = c.LocalChanges[k]
                      /\ k \in DOMAIN c.RemoteChanges => dOut.merged[k] = c.RemoteChanges[k]

\* merge has resolved a descriptor with a conflicting key and a one-sided key
C16_Witness ==
    /\ ResolvedBy("merge")
    /\ dOut.ok
    /\ dIn.conflict.Conflicts # <<>>
    /\ DOMAIN dIn.conflict.LocalChanges # DOMAIN dIn.conflict.RemoteChanges

(* C17: backup-then-local.  Under the backup policy a resolved text is      *)
(* returned only when both snapshots were written as backup files -- if a   *)
(* backup write fails there is no resolved text -- and the text is remote   *)
(* overlaid by local.                                                       *)
C17_BackupBeforeResolve ==
    ResolvedBy("backup") =>
        /\ dOut.ok <=> dOut.backedUp
        /\ dOut.ok =>
             /\ dOut.dir = {"local", "remote"}
             /\ dOut.content =
                  generateEnvContent(Overlay(dIn.conflict.RemoteChanges,
                                             dIn.conflict.LocalChanges))

-----------------------------------------------------------------------------
(* C18: with the manual policy and no interactive terminal, a push or pull  *)
(* that detects a conflict never picks a side: it returns the resolver's    *)
(* error and leaves the local file, the remote blob and the sync-state      *)
(* record unchanged.                                                        *)
C18_ManualNeedsTerminal ==
    [][(/\ SyncOp(last') /\ last'.detect = "conflict"
        /\ resolver.Strategy = "manual" /\ ~resolver.InteractiveMode)
       => (/\ ~last'.ok
           /\ last'.err = "resolve"
           /\ UNCHANGED <<localFile, remoteBlob, stateFile>>)]_vars

\* a pull under a non-interactive manual resolver met a conflicting key
C18_Witness ==
    /\ resolver = [Strategy |-> "manual", InteractiveMode |-> FALSE]
    /\ last.op = "pull" /\ last.detect = "conflict" /\ last.nconf > 0
    /\ last.err = "resolve"

\* what the typed lines say, in order: lines that are no choice are dropped,
\* an edit takes the line after it as the new value
RECURSIVE Answered(_)
Answered(stdin) ==
    IF stdin = NoInput THEN <<>>
    ELSE LET w == TrimSpace(ToLower(Head(stdin)))
         IN  IF w \in {<<"l">>, Word_local}
             THEN <<[pick |-> "local", value |-> <<>>]>> \o Answered(Tail(stdin))
             ELSE IF w \in {<<"r">>, Word_remote}
             THEN <<[pick |-> "remote", value |-> <<>>]>> \o Answered(Tail(stdin))
             ELSE IF w \in {<<"e">>, Word_edit}
             THEN IF Len(stdin) < 2 THEN <<>>
                  ELSE <<[pick |-> "new", value |-> TrimSpace(stdin[2])]>>
                       \o Answered(SubSeq(stdin, 3, Len(stdin)))
             ELSE Answered(Tail(stdin))

(* C19: manual policy at an interactive terminal.  The resolution succeeds  *)
(* exactly when every conflicting key got an answer; the resolved mapping   *)
(* then holds every non-conflicting key of both sides with its own value    *)
(* and, for the i-th conflicting key, the value the i-th valid answer       *)
(* selects: local, remote, or the new value typed.  Lines that are no       *)
(* choice select nothing.                                                   *)
C19_ManualTakesEachAnswer ==
    (ResolvedBy("manual") /\ dIn.resolver.InteractiveMode) =>
        LET c == dIn.conflict
            answers == Answered(dIn.stdin)
        IN  /\ dOut.ok <=> Len(answers) >= Len(c.Conflicts)
            /\ dOut.ok =>
                 /\ dOut.content = generateEnvContent(dOut.merged)
                 /\ DOMAIN dOut.merged =
                        (DOMAIN c.LocalChanges) \cup (DOMAIN c.RemoteChanges)
                 /\ \A k \in DOMAIN dOut.merged :
                      ~contains(c.Conflicts, k) =>
                        /\ k \in DOMAIN c.LocalChanges => dOut.merged[k] = c.LocalChanges[k]
                        /\ k \in DOMAIN c.RemoteChanges => dOut.merged[k] = c.RemoteChanges[k]
                 /\ \A i \in 1..Len(c.Conflicts) :
                      dOut.merged[c.Conflicts[i]] =
                        CASE answers[i].pick = "local" -> c.LocalChanges[c.Conflicts[i]]
                          [] answers[i].pick = "remote" -> c.RemoteChanges[c.Conflicts[i]]
                          [] OTHER -> answers[i].value

\* a mistyped line came first and the conflicting key was still resolved
C19_Witness ==
    /\ ResolvedBy("manual") /\ dIn.resolver.InteractiveMode
    /\ dOut.ok
    /\ dIn.conflict.Conflicts # <<>>
    /\ Len(dIn.stdin) >= 2
    /\ dIn.stdin[1] = <<" ", "x">>

(* C20: a descriptor with no conflicting key is resolved by the manual      *)
(* policy without a prompt and without an error, interactive or not, and    *)
(* the result is the union of both mappings.                                *)
C20_DisjointNeedsNoTerminal ==
    (ResolvedBy("manual") /\ dIn.conflict.Conflicts = <<>>) =>
        /\ dOut.ok
        /\ dOut.content =
             generateEnvContent(Overlay(dIn.conflict.LocalChanges,
                                        dIn.conflict.RemoteChanges))

-----------------------------------------------------------------------------
(* The file watcher's loop, seen from outside *)

\* the loop takes the event fsnotify offers
Handled == pc = "select" /\ events # NoEvent /\ events' = NoEvent /\ pc' # "returned"

\* line 136 lets the change through: the prompt or the push callback follows
Accepted == Handled /\ pc' \in {"prompt", "push"}

\* a callback begins
Begins(callback) == callback \in running' /\ callback \notin running

(* C21: debounce.  With push enabled, a qualifying event on the target that *)
(* falls outside the guard window is accepted when it was fired more than   *)
(* the debounce interval after the last accepted one, so that two changes   *)
(* more than the interval apart yield two accepted changes; and an event is *)
(* accepted only if strictly more than the debounce interval has elapsed    *)
(* since the last acceptance.                                               *)
C21_Debounce ==
    [][(Handled /\ fw.EnablePush /\ isTargetFile(events) /\ isChange(events)
          /\ ~events.inGuard /\ sincePull >= GuardInterval) =>
            /\ events.spaced => Accepted
            /\ Accepted => sinceAccept > fw.DebounceTime]_vars

(* C22: guard window.  A change event on the target that occurs within      *)
(* GuardInterval seconds after the most recently recorded pull time never   *)
(* triggers onLocalChange, however long the refresh callback ran and        *)
(* whatever the debounce state.                                             *)
C22_GuardWindow ==
    [][(Handled /\ events.inGuard) => ~Accepted]_vars

(* C23: Stop triggers an orderly shutdown.  Once Stop has been called while *)
(* the loop is watching, the loop begins no further callback, and Start     *)
(* returns with the watch closed.                                           *)
C23_StopShutsDown ==
    /\ [][(stopCall # "none" /\ pc = "select") =>
            ~(Begins("push") \/ Begins("pull"))]_vars
    /\ (stopCall = "blocked" /\ pc = "select") ~> (pc = "returned" /\ watches = {})

(* C24: cancellation.  Once ctx is cancelled while the loop is watching,    *)
(* and every callback returns and every prompt is answered, Start returns;  *)
(* a Start that leaves the loop returns nil with the watch closed; and no   *)
(* callback begins after Start has returned.                                *)
C24_Cancellation ==
    /\ (ctxDone /\ pc # "new") ~> (pc = "returned")
    /\ [][(pc \notin {"new", "returned"} /\ pc' = "returned") =>
            (ctxDone /\ ret' = "nil" /\ watches' = {} /\ running' = {})]_vars
    /\ [][pc = "returned" =>
            (pc' = "returned" /\ ~Begins("push") /\ ~Begins("pull"))]_vars

\* Start has returned nil after ctx was cancelled
C24_Witness ==
    pc = "returned" /\ ret = "nil" /\ ctxDone /\ watches = {} /\ running = {}

\* a callback returns an error
Failed(callback) ==
    callback \in running /\ callback \notin running' /\ callback \in reported'

(* C25: a callback failure never stops the watcher.  When onLocalChange or  *)
(* onRefreshTick returns an error the loop prints it and selects again,     *)
(* Start has not returned and the offered event is kept; right after a      *)
(* failure a tick is still served; and a change outside guard and debounce  *)
(* is always accepted, whatever was reported before.                        *)
C25_CallbackFailureNotFatal ==
    /\ [][(Failed("push") \/ Failed("pull")) =>
            (pc' = "select" /\ ret' = "none" /\ events' = events
               /\ stopCall' = stopCall)]_vars
    /\ []((pc = "select" /\ reported \cap {"push", "pull"} # {}) => ENABLED OnTick)
    /\ [][(Handled /\ fw.EnablePush /\ isTargetFile(events) /\ isChange(events)
             /\ sincePull >= GuardInterval /\ sinceChange > fw.DebounceTime) =>
            Accepted]_vars

\* the pull callback has failed and the loop is back in select with an event
\* waiting
C25_Witness ==
    pc = "select" /\ reported = {"pull"} /\ ret = "none" /\ events # NoEvent

\* the answers that are "y" or "yes" once trimmed and lower-cased
Affirmative ==
    {<<"y", NL>>, <<"Y", NL>>, <<"y", "e", "s", NL>>, <<" ", "Y", "E", "S", " ", NL>>}

(* C26: confirmation gate.  With push and confirmation enabled an accepted  *)
(* change leads to the prompt and never straight to onLocalChange; the      *)
(* callback begins exactly when the answer is "y" or "yes" after trimming   *)
(* and lower-casing; any other answer or a read error begins no callback,   *)
(* makes Start return nothing and leaves the loop in select.                *)
C26_ConfirmationGate ==
    /\ [][(Accepted /\ fw.ConfirmPush) => (pc' = "prompt" /\ ~Begins("push"))]_vars
    /\ [][(Begins("push") /\ fw.ConfirmPush) =>
            (pc = "prompt" /\ Head(terminal) \in Affirmative)]_vars
    /\ [][(pc = "prompt" /\ pc' # "prompt") =>
            IF Head(terminal) \in Affirmative
            THEN Begins("push") /\ pc' = "push"
            ELSE /\ ~Begins("push") /\ ~Begins("pull")
                 /\ pc' = "select" /\ ret' = "none"
                 /\ reported' \subseteq {"read"}]_vars

\* the prompt met a read error and the loop is watching again
C26_Witness ==
    fw.ConfirmPush /\ pc = "select" /\ reported = {"read"} /\ running = {}

(* C27: atomic rewrites.  With push enabled and confirmation off, the       *)
(* Create that a rename over the target produces, occurring more than the   *)
(* debounce interval after the previous acceptance and outside the guard    *)
(* window (when it occurs and when it is handled), makes the loop call      *)
(* onLocalChange.                                                           *)
C27_AtomicRewriteDetected ==
    [][(Handled /\ fw.EnablePush /\ ~fw.ConfirmPush
          /\ events.Name = "target" /\ "Create" \in events.Op
          /\ events.spaced /\ ~events.inGuard /\ sincePull >= GuardInterval) =>
            Begins("push")]_vars

(* C28: periodic refresh.  In select a tick can always be served, whatever  *)
(* the flags, the debounce state and the errors reported before; serving it *)
(* records the pull time and begins onRefreshTick in the same step, and the *)
(* pull time is recorded by nothing else.                                   *)
C28_PeriodicRefresh ==
    /\ [](pc = "select" => ENABLED OnTick)
    /\ [][Begins("pull") => (pc = "select" /\ sincePull' = 0 /\ pc' = "pull")]_vars
    /\ [][(sincePull' = 0 /\ sincePull # 0) => Begins("pull")]_vars

\* a tick is being served with push disabled
C28_Witness ==
    pc = "pull" /\ sincePull = 0 /\ ~fw.EnablePush /\ running = {"pull"}

(* C29: push and pull never interleave.  At most one callback executes at   *)
(* any time, the loop is inside it, and until it returns the loop takes no  *)
(* event, serves no tick and does not return.                               *)
C29_NoInterleaving ==
    /\ [](Cardinality(running) <= 1)
    /\ [](running # {} => running = {pc})
    /\ [][running # {} =>
            (/\ ~Begins("push") /\ ~Begins("pull")
             /\ pc' \in {pc, "select"}
             /\ events # NoEvent => events' = events
             /\ ret' = ret)]_vars

\* the push callback runs while an event is offered and ctx is cancelled
C29_Witness ==
    running = {"push"} /\ pc = "push" /\ events # NoEvent /\ ctxDone

\* the vault holds a blob that was not sealed under the team's key
Undecryptable(rb) == rb.exists /\ rb.data.key # TeamKey.id

(* C30: pull aborts cleanly on a fetch or decrypt failure.  A pull whose    *)
(* fetch fails, or that meets a blob sealed under another key, returns the  *)
(* fetch or decrypt error and leaves the local file, the sync-state record  *)
(* and the remote blob as they were; a push whose fetch succeeded and that  *)
(* meets such a blob returns the decrypt error and leaves all three as they *)
(* were.                                                                    *)
C30_PullAbortsCleanly ==
    [][/\ (last'.op = "pull"
             /\ (last'.err \in {"fetch", "decrypt"} \/ ~remoteBlob.exists
                   \/ Undecryptable(remoteBlob))) =>
            /\ ~last'.ok
            /\ last'.err \in {"fetch", "decrypt"}
            /\ UNCHANGED <<localFile, stateFile, remoteBlob>>
       /\ (last'.op = "push"
             /\ (last'.err = "decrypt"
                   \/ (Undecryptable(remoteBlob) /\ last'.err # "read"
                         /\ last'.path \notin {"first_not_found", "first_fetch_failed"}))) =>
            /\ ~last'.ok
            /\ last'.err = "decrypt"
            /\ UNCHANGED <<localFile, stateFile, remoteBlob>>]_vars

\* a pull has just failed to decrypt a blob sealed under another key while a
\* local file and a sync-state record exist
C30_Witness ==
    /\ last.op = "pull" /\ last.err = "decrypt" /\ ~last.ok
    /\ Undecryptable(remoteBlob)
    /\ localFile.exists
    /\ stateFile.status = "ok"

-----------------------------------------------------------------------------
(* Parse errors, the cipher *)

\* a line that is neither blank nor a comment and holds no "="
BadLine(raw) ==
    LET t == TrimSpace(raw)
    IN  t # <<>> /\ Head(t) # "#" /\ ~contains(t, "=")

\* the 1-based number of the first such line of a text, 0 when it has none
FirstBadLine(content) ==
    LET lines == Split(content, NL)
        bad == {i \in 1..Len(lines) : BadLine(lines[i])}
    IN  IF bad = {} THEN 0 ELSE CHOOSE i \in bad : \A j \in bad : i <= j

\* both sides differ from each other and from the last synced text
BothMoved(l, r, h) ==
    /\ calculateHash(l) # calculateHash(r)
    /\ calculateHash(l) # h
    /\ calculateHash(r) # h

(* C31: parse errors abort detection.  A push or pull that reaches          *)
(* detection reports a detection error exactly when both sides have moved   *)
(* and the local or the remote text has a non-blank, non-comment line       *)
(* without "="; the detector's result is then the error citing the 1-based  *)
(* number of the first such line (of the local text when it has one) and no *)
(* descriptor, the operation fails, and the local file, the remote blob and *)
(* the sync-state record are unchanged.                                     *)
C31_ParseErrorsAbort ==
    [][(SyncOp(last') /\ last'.detect # "") =>
         LET l == localFile.content
             r == RemotePlain(remoteBlob)
             h == StoredHash(stateFile)
             nl == FirstBadLine(l)
             nr == FirstBadLine(r)
         IN  /\ (last'.detect = "error") <=> (BothMoved(l, r, h) /\ (nl > 0 \/ nr > 0))
             /\ last'.detect = "error" =>
                  /\ DetectConflict(l, r, h) =
                       IF nl > 0 THEN DetectError("local", nl) ELSE DetectError("remote", nr)
                  /\ ~last'.ok
                  /\ last'.err = "detect"
                  /\ UNCHANGED <<localFile, remoteBlob, stateFile>>]_vars

\* a pull has just failed on a local text whose first line has no "=", with
\* a sync-state record present
C31_Witness ==
    /\ last.op = "pull" /\ last.detect = "error" /\ ~last.ok
    /\ localFile.exists /\ FirstBadLine(localFile.content) = 1
    /\ remoteBlob.exists
    /\ stateFile.status = "ok"

C33_PullOnly ==
    /\ [](~fw.EnablePush => (pc # "prompt" /\ pc # "push" /\ "push" \notin running))
    /\ [][(~fw.EnablePush /\ Handled) =>
            (/\ pc' = "select" /\ ~Begins("push")
             /\ Rewatches(events) =>
                  \/ "file" \in watches' /\ reported' = {}
                  \/ "file" \notin watches' /\ reported' = {"rewatch"})]_vars
    /\ []((~fw.EnablePush /\ pc = "select") => ENABLED OnTick)
    /\ [][(~fw.EnablePush /\ pc = "select" /\ pc' = "pull") => Begins("pull")]_vars

\* push disabled: the recreated target has just been watched again after a
\* Create that arrived through the parent directory
C33_Witness ==
    /\ ~fw.EnablePush
    /\ pc = "select" /\ events = NoEvent /\ reported = {"rewatch"}
    /\ sincePull >= GuardInterval /\ sinceChange > fw.DebounceTime

\* the event the loop classifies as a change of the target
Qualifies(event) == isTargetFile(event) /\ isChange(event)

(* C34: event classification.  The prompt and onLocalChange are reached    *)
(* only through an event named by the target path or its base name whose   *)
(* operation includes Write, Create or Rename; any other event -- another  *)
(* path, or Remove alone or Chmod alone on the target -- leaves the loop   *)
(* in select, begins no callback and leaves lastChange as it was.          *)
C34_EventClassification ==
    /\ [][Accepted =>
            (events.Name \in {"target", "base"}
               /\ events.Op \cap {"Write", "Create", "Rename"} # {})]_vars
    /\ [][Begins("push") => (Accepted \/ pc = "prompt")]_vars
    /\ [][(pc' = "prompt" /\ pc # "prompt") => Accepted]_vars
    /\ [][(Handled /\ (events.Name = "other" \/ events.Op \in {{"Remove"}, {"Chmod"}})) =>
            (/\ pc' = "select" /\ running' = {}
             /\ sinceChange' = sinceChange)]_vars
    /\ [][sinceChange' < sinceChange => pc \in {"new", "prompt", "push"}]_vars

\* push enabled, neither guard nor debounce in the way, and the event
\* offered to the loop is a Chmod alone on the exact target
C34_Witness ==
    /\ fw.EnablePush /\ pc = "select"
    /\ events.Name = "target" /\ events.Op = {"Chmod"}
    /\ sincePull >= GuardInterval /\ sinceChange > fw.DebounceTime

(* C35: watch recovery after recreation.  A Create of the exact target     *)
(* makes the loop drop and re-add the watch whatever the guard window and  *)
(* the debounce state say about the event; a failure to re-add is reported *)
(* and Start does not return; and a change of the target fired within the *)
(* debounce interval of the last accepted one -- the Write that follows an *)
(* accepted Create -- is coalesced: it is not accepted a second time.      *)
C35_WatchRecovery ==
    /\ [][(Handled /\ events.Name = "target" /\ "Create" \in events.Op) =>
            \/ "file" \in watches' /\ reported' = {}
            \/ "file" \notin watches' /\ reported' = {"rewatch"}]_vars
    /\ [][(pc = "select" /\ events # NoEvent /\ events' = NoEvent
             /\ "rewatch" \in reported') =>
            (pc' # "returned" /\ ret' = "none")]_vars
    /\ [][(Handled /\ fw.EnablePush /\ Qualifies(events)
             /\ ~events.spaced /\ ~events.inGuard) =>
            ~Accepted]_vars

(* C36: watch-registration failures.  When the target cannot be watched at *)
(* startup Start returns the error at once: the loop is never entered and  *)
(* no callback has begun or begins afterwards.  A parent directory that    *)
(* cannot be watched does not stop Start: from the new watcher Start can   *)
(* always go on to select with the file watch alone.  A failed health      *)
(* check is reported and the loop selects again.                           *)
C36_RegistrationFailures ==
    /\ [][(pc = "new" /\ pc' # "new") =>
            \/ pc' = "returned" /\ ret' = "error" /\ running' = {} /\ watches' = {}
            \/ pc' = "select" /\ ret' = "none" /\ "file" \in watches']_vars
    /\ [](ret = "error" => (pc = "returned" /\ running = {}))
    /\ [](pc = "new" => ENABLED (Start /\ pc' = "select" /\ watches' = {"file"}))
    /\ [][("pull" \in running /\ "health" \in reported') =>
            (pc' = "select" /\ ret' = "none" /\ running' = {})]_vars

\* the parent directory could not be watched, and later a health check
\* failed: the loop is selecting with no watch left
C36_Witness ==
    pc = "select" /\ ret = "none" /\ reported = {"health"} /\ watches = {}

(* C37: the frame of lastChange.  lastChange moves once for every event    *)
(* that passed the guard window and the debounce check, when the branch    *)
(* the event entered is left: after the push callback, failed or not, and  *)
(* after a declined prompt.  It is moved by nothing else: not by an event  *)
(* that was not accepted, whatever rejected it, and not by a tick or by    *)
(* the return of the refresh callback.                                     *)
C37_DebounceTimestampFrame ==
    /\ [][(pc \in {"prompt", "push"} /\ pc' = "select") => sinceChange' = 0]_vars
    /\ [][(pc = "prompt" /\ pc' = "push") => sinceChange' = sinceChange]_vars
    /\ [](pc \in {"prompt", "push"} => sinceChange > fw.DebounceTime)
    /\ [][(pc = "select" /\ sinceChange' # sinceChange) =>
            (events' = events /\ pc' = "select" /\ running' = {}
               /\ sinceChange' = Later(sinceChange, fw.DebounceTime + 1))]_vars
    /\ [][(Handled /\ ~Accepted) => sinceChange' = sinceChange]_vars
    /\ [][(Begins("pull") \/ "pull" \in running) => sinceChange' >= sinceChange]_vars

\* the prompt could not read an answer: no push, and lastChange has moved
C37_Witness ==
    /\ fw.ConfirmPush /\ pc = "select" /\ reported = {"read"}
    /\ sinceChange = 0 /\ sinceAccept = 0

-----------------------------------------------------------------------------
(* The sync-state record over pushes and pulls *)

(* C38: the sync-state record is rewritten only at the end of a successful *)
(* operation.  A push or pull that returns an error leaves the record file *)
(* exactly as it was; a push that rewrote it had stored the text it        *)
(* records in the vault, and a pull that rewrote it had written that text  *)
(* to the local file.                                                      *)
C38_StateWrittenLast ==
    [][SyncOp(last') =>
         /\ ~last'.ok => (stateFile' = stateFile /\ ~last'.saved)
         /\ stateFile' # stateFile => last'.saved
         /\ last'.saved =>
              /\ last'.ok
              /\ stateFile'.status = "ok"
              /\ stateFile'.state.LastSyncBy = last'.op
              /\ last'.op = "push" =>
                   /\ remoteBlob'.exists /\ remoteBlob'.data.key = TeamKey.id
                   /\ stateFile'.state.LastKnownHash =
                        calculateHash(RemotePlain(remoteBlob'))
              /\ last'.op = "pull" =>
                   /\ localFile'.exists
                   /\ stateFile'.state.LastKnownHash = calculateHash(localFile'.content)]_vars

\* a push that resolved a conflict and rewrote the local file, then failed
\* to store: the record of an earlier pull is still there
C38_Witness ==
    /\ last.op = "push" /\ ~last.ok /\ last.err = "store" /\ last.resolved
    /\ stateFile.status = "ok" /\ stateFile.state.LastSyncBy = "pull"

\* the count in the record file, legible to json.Unmarshal or not
RecordedCount(sf) == sf.state.ConflictCount

(* C39: the cumulative conflict count.  No push or pull lowers the count   *)
(* the record file holds, a run that could not load the record included;   *)
(* and a successful push or pull that saved the record raises it by one    *)
(* when the run resolved a conflict and leaves it as it was otherwise.     *)
C39_ConflictCountMonotone ==
    [][SyncOp(last') =>
         /\ RecordedCount(stateFile') >= RecordedCount(stateFile)
         /\ (last'.ok /\ last'.saved) =>
              RecordedCount(stateFile') =
                  RecordedCount(stateFile) + (IF last'.resolved THEN 1 ELSE 0)]_vars

\* the text parses as an env file
Parseable(content) == parseEnvContent(content).ok

(* C40: no reference point.  When the record is absent or unreadable and   *)
(* local and remote are different texts that both parse, a push or pull    *)
(* never replaces one side without the resolver having run: either the run *)
(* went through the resolver, or it failed and left both sides as they     *)
(* were.                                                                   *)
C40_NoRecordNoFastForward ==
    [][(/\ SyncOp(last')
        /\ stateFile.status # "ok"
        /\ localFile.exists /\ remoteBlob.exists
        /\ remoteBlob.data.key = TeamKey.id
        /\ Parseable(localFile.content) /\ Parseable(RemotePlain(remoteBlob))
        /\ localFile.content # RemotePlain(remoteBlob)) =>
            \/ last'.detect = "conflict" /\ last'.resolved
            \/ ~last'.ok /\ UNCHANGED <<localFile, remoteBlob>>]_vars

====
